---- MODULE Spec2Model ----
(***************************************************************************)
(* News keyword aggregation pipeline (src/main.py and src/test.py):        *)
(* paginated search, per-article keyword extraction, dual-count            *)
(* aggregation, ranking, and the persisted stopword set.                   *)
(***************************************************************************)
EXTENDS Integers, Sequences, FiniteSets, TLC

(***************************************************************************)
(* Bounds of the model.                                                    *)
(***************************************************************************)
\* Items asked per search call: the `display` argument (100 in the source),
\* scaled down together with the slider ranges that are multiples of it.
PageSize == 2
\* Largest number of search pages a run may need (slider maximum / display).
MaxPages == 2
\* Longest tokenizer output of one article.
MaxTokens == 3
\* Largest per-article keyword count the slider offers (n_amount / top_n).
MaxKeywords == 2
\* Most results the search API holds for the keyword of a whole run.
MaxResults == 2
\* Longest tokenizer output of an article inside a whole run.
MaxRunTokens == 2

\* stopword edits a lone writer makes in a row
MaxEdits == 2
\* script runs of the result section that follow one analysis run
MaxClicks == 2

\* Tokens the tokenizer may produce: lengths 1, 2, 5, 6 and 11.
Vocab == {"a", "ai", "cloud", "server", "abcdefghijk"}

(***************************************************************************)
(* Helpers over sequences.                                                 *)
(***************************************************************************)
Range(s) == {s[i] : i \in 1..Len(s)}

\* s[:n] of Python / Series.head(n)
Take(s, n) == SubSeq(s, 1, IF n < Len(s) THEN n ELSE Len(s))

\* number of occurrences of w in s
RECURSIVE Occurrences(_, _)
Occurrences(s, w) ==
    IF s = <<>> THEN 0
    ELSE (IF Head(s) = w THEN 1 ELSE 0) + Occurrences(Tail(s), w)

\* index of the first occurrence of w in s (0 when absent)
FirstIndex(s, w) ==
    IF w \in Range(s) THEN CHOOSE i \in 1..Len(s) : s[i] = w /\ \A j \in 1..(i-1) : s[j] # w
    ELSE 0

\* every sequence over S of length at most n
SeqsUpTo(S, n) == UNION {[1..k -> S] : k \in 0..n}

(***************************************************************************)
(* Per-article keyword extraction.                                         *)
(***************************************************************************)
\* the filter without its upper length limit
KeepWordNoMax(t, stops) == 2 <= Len(t) /\ t \notin stops

\* 2 <= len(t) <= 10 and t not in saved_stops
KeepWord(t, stops) == 2 <= Len(t) /\ Len(t) <= 10 /\ t \notin stops

\* words = [t for t in tokens if 2 <= len(t) <= 10 and t not in saved_stops]
RECURSIVE FilterWords(_, _)
FilterWords(tokens, stops) ==
    IF tokens = <<>> THEN <<>>
    ELSE IF KeepWord(Head(tokens), stops)
         THEN <<Head(tokens)>> \o FilterWords(Tail(tokens), stops)
         ELSE FilterWords(Tail(tokens), stops)

\* re.findall(r'\b\w{2,10}\b', text): the whole words of 2 to 10 characters
RECURSIVE RegexWords(_)
RegexWords(text) ==
    IF text = <<>> THEN <<>>
    ELSE IF 2 <= Len(Head(text)) /\ Len(Head(text)) <= 10
         THEN <<Head(text)>> \o RegexWords(Tail(text))
         ELSE RegexWords(Tail(text))

\* pd.Series(words).value_counts(): one row per distinct word with its count,
\* rows in descending order of count.  The library sorts with its default
\* (unstable) sort kind, so the order among rows of equal count is whatever
\* the installed build produces: every such order is a possible result.
ValueCounts(words) ==
    LET keys == Range(words)
        k    == Cardinality(keys)
    IN  { vc \in [1..k -> [word : keys, count : 1..Len(words)]] :
            /\ \A i \in 1..k : vc[i].count = Occurrences(words, vc[i].word)
            /\ \A i, j \in 1..k : i # j => vc[i].word # vc[j].word
            /\ \A i \in 1..k : \A j \in (i+1)..k : vc[i].count >= vc[j].count }

\* full_counts.head(n_amount)
TopN(full_counts, n) == Take(full_counts, n)

(***************************************************************************)
(* Aggregation: total_stats is an insertion-ordered dict, word -> [a, f].  *)
(***************************************************************************)
Words(stats) == {stats[i].word : i \in 1..Len(stats)}

IndexOf(stats, w) == CHOOSE i \in 1..Len(stats) : stats[i].word = w

\* total_stats[w]
Stat(stats, w) == stats[IndexOf(stats, w)].stat

\* the two counters updated the wrong way round
CountWordSwapped(stats, word, count) ==
    LET s0 == IF word \in Words(stats) THEN stats
              ELSE Append(stats, [word |-> word, stat |-> <<0, 0>>])
        i  == IndexOf(s0, word)
    IN  [s0 EXCEPT ![i].stat = <<@[1] + count, @[2] + 1>>]

\* if word not in total_stats: total_stats[word] = [0, 0]
\* total_stats[word][0] += 1 ; total_stats[word][1] += count
CountWord(stats, word, count) ==
    LET s0 == IF word \in Words(stats) THEN stats
              ELSE Append(stats, [word |-> word, stat |-> <<0, 0>>])
        i  == IndexOf(s0, word)
    IN  [s0 EXCEPT ![i].stat = <<@[1] + 1, @[2] + count>>]

\* only the first entry of the per-article map is counted
FoldInFirstOnly(stats, top_n) ==
    IF top_n = <<>> THEN stats
    ELSE CountWord(stats, Head(top_n).word, Head(top_n).count)

\* for word, count in top_n.items(): ...
RECURSIVE FoldIn(_, _)
FoldIn(stats, top_n) ==
    IF top_n = <<>> THEN stats
    ELSE FoldIn(CountWord(stats, Head(top_n).word, Head(top_n).count), Tail(top_n))

(***************************************************************************)
(* Ranking: sorted(total_stats.items(), key=(x[1][0], x[1][1]),            *)
(* reverse=True).  The built-in sort is stable, also under reverse=True.   *)
(***************************************************************************)
\* tuple comparison a < b on (articles, frequency)
KeyLess(a, b) == a[1] < b[1] \/ (a[1] = b[1] /\ a[2] < b[2])

\* an unstable insertion: e goes in front of the entries with an equal key
InsertDescUnstable(sorted, e) ==
    LET before == {i \in 1..Len(sorted) : KeyLess(e.stat, sorted[i].stat)}
        p      == Cardinality(before)
    IN  SubSeq(sorted, 1, p) \o <<e>> \o SubSeq(sorted, p + 1, Len(sorted))

\* place e behind every entry of the sorted prefix whose key is not smaller
InsertDesc(sorted, e) ==
    LET before == {i \in 1..Len(sorted) : ~KeyLess(sorted[i].stat, e.stat)}
        p      == Cardinality(before)
    IN  SubSeq(sorted, 1, p) \o <<e>> \o SubSeq(sorted, p + 1, Len(sorted))

RECURSIVE SortFrom(_, _)
SortFrom(sorted, rest) ==
    IF rest = <<>> THEN sorted
    ELSE SortFrom(InsertDesc(sorted, Head(rest)), Tail(rest))

sorted_stats(stats) == SortFrom(<<>>, stats)

(***************************************************************************)
(* Stopword persistence.  The file is missing or holds text; the text is   *)
(* kept as its JSON tokens: "[", the strings, "," between them, "]", each   *)
(* token in the encoding it was written with.                              *)
(***************************************************************************)
NoFile == [exists |-> FALSE, text |-> <<>>]

\* words written in Hangul; "gisa" stands for one
NonLatin == {"gisa"}

\* code-point order of the vocabulary, as sorted() compares strings
WordOrder == <<"a", "abcdefghijk", "ai", "cloud", "server", "gisa">>

Ord(w) == CHOOSE i \in 1..Len(WordOrder) : WordOrder[i] = w

\* list(sorted(stopwords_set))
SortedList(S) ==
    CHOOSE q \in [1..Cardinality(S) -> S] :
        /\ Range(q) = S
        /\ \A i \in 1..Len(q) : \A j \in (i+1)..Len(q) : Ord(q[i]) < Ord(q[j])

Punctuation == {"[", "]", ","}

\* text written through a file opened with encoding=`encoding`
encode(tokens, encoding) ==
    [i \in 1..Len(tokens) |-> [chars |-> tokens[i], encoding |-> encoding]]

\* text read through a file opened with encoding=`encoding`: characters
\* outside ASCII come back only under the encoding they were written with
decode(text, encoding) ==
    [i \in 1..Len(text) |->
        IF text[i].encoding = encoding \/ text[i].chars \notin NonLatin
        THEN text[i].chars ELSE "?"]

\* json.dump(list, f, ensure_ascii=False): the text of a JSON array of
\* strings, every string written as it is
json_dump(list) ==
    LET N == IF list = <<>> THEN 2 ELSE 2 * Len(list) + 1
    IN  [i \in 1..N |-> IF i = 1 THEN "["
                        ELSE IF i = N THEN "]"
                        ELSE IF i % 2 = 0 THEN list[i \div 2] ELSE ","]

\* json.load(f): the list the text denotes; text that is not one JSON
\* document raises
json_load(text) ==
    LET N  == Len(text)
        ok == /\ N >= 2
              /\ N = 2 \/ N % 2 = 1
              /\ text[1] = "["
              /\ text[N] = "]"
              /\ \A i \in 2..(N - 1) :
                    IF i % 2 = 0 THEN text[i] \notin Punctuation ELSE text[i] = ","
    IN  [raises |-> ~ok,
         value  |-> IF ok THEN [k \in 1..((N - 1) \div 2) |-> text[2 * k]] ELSE <<>>]

\* the file is opened without encoding=, so with the encoding of the locale
load_user_stopwords_locale(file) ==
    IF file.exists /\ ~json_load(decode(file.text, "locale")).raises
    THEN Range(json_load(decode(file.text, "locale")).value)
    ELSE {}

\* load_user_stopwords(): set(json.load(f)); set() without a file or when
\* reading raises
load_user_stopwords(file) ==
    IF file.exists /\ ~json_load(decode(file.text, "utf-8")).raises
    THEN Range(json_load(decode(file.text, "utf-8")).value)
    ELSE {}

\* open(STOPWORDS_FILE, 'w'): the file is created or truncated
open_w(file) == [exists |-> TRUE, text |-> <<>>]

\* leaving the with block flushes the buffered text at the start of the
\* file; text beyond it stays
write_close(file, data) ==
    [exists |-> TRUE, text |-> data \o SubSeq(file.text, Len(data) + 1, Len(file.text))]

\* save_user_stopwords(stopwords_set), run without interruption
save_user_stopwords(stopwords_set) ==
    write_close(open_w(NoFile), encode(json_dump(SortedList(stopwords_set)), "utf-8"))

(***************************************************************************)
(* The search API call.                                                    *)
(***************************************************************************)
\* a returned value: None, or a list of items
None == [none |-> TRUE, list |-> <<>>]

List(l) == [none |-> FALSE, list |-> l]

\* what one call to the search API can answer
FailureReplies == {"http401", "http403", "http500", "neterr"}

\* src/main.py get_naver_news: the items on HTTP 200; otherwise None, after
\* st.error for an HTTPError or any other exception, and silently when the
\* status is another success code
main_get_naver_news(reply) ==
    CASE reply.kind = "ok"      -> [ret |-> List(reply.items), error |-> <<>>, log |-> <<>>]
      [] reply.kind = "http401" -> [ret |-> None, error |-> <<"invalid_api_key">>, log |-> <<>>]
      [] reply.kind = "http403" -> [ret |-> None, error |-> <<"no_permission_or_quota">>, log |-> <<>>]
      [] reply.kind = "http500" -> [ret |-> None, error |-> <<"api_error_500">>, log |-> <<>>]
      [] reply.kind = "neterr"  -> [ret |-> None, error |-> <<"connection_error">>, log |-> <<>>]
      [] OTHER                  -> [ret |-> None, error |-> <<>>, log |-> <<>>]

\* src/test.py get_naver_news: the items, or [] after logger.error on any
\* exception (raise_for_status included); nothing is shown to the user
test_get_naver_news(reply) ==
    CASE reply.kind = "ok"      -> [ret |-> List(reply.items), error |-> <<>>, log |-> <<>>]
      [] reply.kind = "http401" -> [ret |-> List(<<>>), error |-> <<>>, log |-> <<"naver_api_error: 401">>]
      [] reply.kind = "http403" -> [ret |-> List(<<>>), error |-> <<>>, log |-> <<"naver_api_error: 403">>]
      [] reply.kind = "http500" -> [ret |-> List(<<>>), error |-> <<>>, log |-> <<"naver_api_error: 500">>]
      [] OTHER                  -> [ret |-> List(<<>>), error |-> <<>>, log |-> <<"naver_api_error: connection">>]

get_naver_news(program, reply) ==
    IF program = "main" THEN main_get_naver_news(reply) ELSE test_get_naver_news(reply)

(***************************************************************************)
(* One loop iteration over a collected item.                               *)
(***************************************************************************)
\* what fetching and tokenizing one article can do: the link is not an
\* article page of the publisher (nothing is fetched); requests.get raises;
\* the page has no content container; tokenize raises; or the tokenizer
\* returns `tokens` (with no tokenizer, src/test.py splits `text` itself)
ArticleEvents(tokenizer, streams) ==
    {[kind |-> k, text |-> <<>>, tokens |-> <<>>] : k \in {"foreign", "fetch_error", "no_tag"}}
    \cup (IF tokenizer
          THEN {[kind |-> "tokenize_error", text |-> <<>>, tokens |-> <<>>]}
               \cup {[kind |-> "ok", text |-> <<>>, tokens |-> t] : t \in streams}
          ELSE {[kind |-> "ok", text |-> t, tokens |-> <<>>] : t \in streams})

\* tokens = my_tokenizer.tokenize(txt) / tokenizer.tokenize(text), or the
\* regular-expression split of src/test.py when there is no tokenizer
Tokenize(prog, ev, tokenizer) ==
    IF tokenizer \/ prog = "main" THEN ev.tokens ELSE RegexWords(ev.text)

\* the handler leaves the loop instead of going on to the next article
main_article_break(stats, ev, tokenizer, vc, n) ==
    IF ev.kind = "foreign"
    THEN [stats |-> stats, top_n |-> <<>>, progress |-> TRUE, goon |-> TRUE]
    ELSE IF ev.kind = "fetch_error"
    THEN [stats |-> stats, top_n |-> <<>>, progress |-> FALSE, goon |-> FALSE]
    ELSE IF ev.kind = "no_tag"
    THEN [stats |-> stats, top_n |-> <<>>, progress |-> TRUE, goon |-> TRUE]
    ELSE IF ev.kind = "tokenize_error" \/ ~tokenizer
    THEN [stats |-> stats, top_n |-> <<>>, progress |-> FALSE, goon |-> FALSE]
    ELSE [stats |-> FoldIn(stats, TopN(vc, n)), top_n |-> TopN(vc, n),
          progress |-> TRUE, goon |-> TRUE]

\* the try block does not cover the call of the tokenizer: a missing
\* tokenizer ends the run
main_article_uncaught(stats, ev, tokenizer, vc, n) ==
    IF ev.kind = "foreign"
    THEN [stats |-> stats, top_n |-> <<>>, progress |-> TRUE, goon |-> TRUE]
    ELSE IF ev.kind = "fetch_error"
    THEN [stats |-> stats, top_n |-> <<>>, progress |-> FALSE, goon |-> TRUE]
    ELSE IF ev.kind = "no_tag"
    THEN [stats |-> stats, top_n |-> <<>>, progress |-> TRUE, goon |-> TRUE]
    ELSE IF ~tokenizer
    THEN [stats |-> stats, top_n |-> <<>>, progress |-> FALSE, goon |-> FALSE]
    ELSE IF ev.kind = "tokenize_error"
    THEN [stats |-> stats, top_n |-> <<>>, progress |-> FALSE, goon |-> TRUE]
    ELSE [stats |-> FoldIn(stats, TopN(vc, n)), top_n |-> TopN(vc, n),
          progress |-> TRUE, goon |-> TRUE]

\* src/main.py, body of `for idx, item in enumerate(items)`: the new
\* total_stats, whether pbar.progress was reached, whether the loop
\* goes on.  `vc` is the value_counts() result of the words.
main_article(stats, ev, tokenizer, vc, n) ==
    IF ev.kind = "foreign"
    THEN [stats |-> stats, top_n |-> <<>>, progress |-> TRUE, goon |-> TRUE]
    ELSE IF ev.kind = "fetch_error"
    THEN [stats |-> stats, top_n |-> <<>>, progress |-> FALSE, goon |-> TRUE]
    ELSE IF ev.kind = "no_tag"
    THEN [stats |-> stats, top_n |-> <<>>, progress |-> TRUE, goon |-> TRUE]
    ELSE IF ev.kind = "tokenize_error" \/ ~tokenizer
    THEN [stats |-> stats, top_n |-> <<>>, progress |-> FALSE, goon |-> TRUE]
    ELSE [stats |-> FoldIn(stats, TopN(vc, n)), top_n |-> TopN(vc, n),
          progress |-> TRUE, goon |-> TRUE]

\* src/test.py extract_keywords_from_article: the per-article map, {} for a
\* foreign link, a missing container or any exception
extract_keywords_from_article(ev, vc, n_keywords) ==
    IF ev.kind # "ok" THEN <<>>
    ELSE TopN(vc, n_keywords)

\* src/test.py, body of `for idx, row in news_df.iterrows()`
test_article(stats, ev, tokenizer, vc, n) ==
    LET article_keywords == extract_keywords_from_article(ev, vc, n)
    IN  [stats |-> FoldIn(stats, article_keywords), top_n |-> article_keywords,
         progress |-> TRUE, goon |-> TRUE]

(***************************************************************************)
(* State.                                                                  *)
(***************************************************************************)
VARIABLES
    program,         \* which script runs the session: "main" or "test"
    my_tokenizer,    \* TRUE when the tokenizer model was loaded, FALSE for None
    stopwords_file,  \* content of user_stopwords.json
    pc,              \* position of the run: form, search, articles, done, aborted
    search_keyword,  \* keyword of the run
    m_amount,        \* articles asked for (m_amount / max_articles)
    n_amount,        \* keywords per article (n_amount / top_n)
    requests,        \* search calls made so far: arguments, reply and result
    items,           \* items / all_items
    saved_stops,     \* stopword set loaded for the run
    idx,             \* articles the loop has gone through
    total_stats,     \* the aggregate table
    pbar,            \* fraction last given to the analysis progress bar
    shown,           \* st.error messages of the run
    logged,          \* logger.error lines of the run
    waits,           \* time.sleep calls of the run, by what they precede, and article fetches
    session_state,   \* published results
    view,            \* result section: selection, drawn word cloud, exported table
    contributed,     \* per word: articles whose map held it, sum of its counts
    failed,          \* articles whose fetch, parse or tokenize raised
    article,         \* an article taken on its own: what its fetch and tokenizer give
    article_keywords, \* the per-article map extracted from `article`
    sessions,        \* per browser session: the stopword edit its script run is making
    before,          \* stopword set in the file before the latest save
    last_save,       \* the latest save: who, which edit, on which loaded set
    edits            \* edits of a lone writer, in order: what was loaded and stored

runVars == <<pc, search_keyword, m_amount, n_amount, requests, items, saved_stops, idx,
             total_stats, pbar, shown, logged, waits>>
histVars == <<contributed, failed>>
envVars == <<program, my_tokenizer, stopwords_file>>
extractVars == <<article, article_keywords>>
storeVars == <<sessions, before, last_save, edits>>
vars == <<envVars, runVars, session_state, view, histVars, extractVars, storeVars>>

\* browser sessions served at the same time
Sessions == {1, 2}

\* a session whose script is not running
Idle == [at |-> "idle", saved_stops |-> {}, op |-> "none", words |-> {}, fresh |-> FALSE,
         before |-> {}]

\* nothing has been saved yet
NoSave == [session |-> 0, saved_stops |-> {}, op |-> "none", words |-> {}, fresh |-> FALSE]

\* no time.sleep call and no article fetch yet; neither program sleeps in
\* the article loop, so before_fetch stays 0
NoWaits == [before_search |-> 0, before_fetch |-> 0, fetches |-> 0]

\* no article is looked at on its own
NoArticle == [kind |-> "none", text |-> <<>>, tokens |-> <<>>]

\* words that can pass the length filter
ValidWords == {w \in Vocab : 2 <= Len(w) /\ Len(w) <= 10}

\* session state before any analysis
NoResults ==
    [analysis_step |-> FALSE, total_stats |-> <<>>, current_keyword |-> "",
     current_n |-> 0, news_items |-> <<>>]

\* result section before anything is selected, drawn or exported
NoView == [custom |-> FALSE, selected |-> {}, display_dict |-> <<>>, csv |-> <<>>, clicks |-> 0]

\* page sizes the sliders offer: multiples of the page size in src/main.py,
\* every value from one page upwards in src/test.py
Amounts(prog) ==
    IF prog = "main" THEN {PageSize * k : k \in 1..MaxPages}
    ELSE PageSize..(PageSize * MaxPages)

\* stopword files a session can start with
InitialFiles == {NoFile, save_user_stopwords({"ai"})}

Init ==
    /\ program \in {"main", "test"}
    /\ my_tokenizer \in BOOLEAN
    /\ stopwords_file \in InitialFiles
    /\ pc = "form"
    /\ search_keyword = ""
    /\ m_amount = 0
    /\ n_amount = 0
    /\ requests = <<>>
    /\ items = <<>>
    /\ saved_stops = {}
    /\ idx = 0
    /\ total_stats = <<>>
    /\ pbar = <<0, 1>>
    /\ waits = NoWaits
    /\ shown = <<>>
    /\ logged = <<>>
    /\ session_state = NoResults
    /\ view = NoView
    /\ contributed = [w \in Vocab |-> <<0, 0>>]
    /\ failed = 0
    /\ article = NoArticle
    /\ article_keywords = <<>>
    /\ sessions = [s \in Sessions |-> Idle]
    /\ before = {}
    /\ last_save = NoSave
    /\ edits = <<>>

(***************************************************************************)
(* Actions of an analysis run.                                             *)
(***************************************************************************)
Keywords == {"kw"}

\* "분석 시작" / "🚀 분석" with a non-empty keyword.  src/test.py loads the
\* stopwords before it searches, src/main.py after.
Submit ==
    /\ pc = "form"
    /\ \E kw \in Keywords, m \in Amounts(program), n \in 1..MaxKeywords :
         /\ search_keyword' = kw
         /\ m_amount' = m
         /\ n_amount' = n
    /\ pc' = "search"
    /\ saved_stops' = IF program = "test" THEN load_user_stopwords(stopwords_file) ELSE saved_stops
    /\ UNCHANGED <<requests, items, idx, total_stats, pbar, shown, logged, waits>>
    /\ UNCHANGED <<view, storeVars, extractVars, envVars, session_state, histVars>>

\* items the search calls of the run have returned so far
RECURSIVE SumReturned(_)
SumReturned(rs) == IF rs = <<>> THEN 0 ELSE Head(rs).returned + SumReturned(Tail(rs))

\* answers of the search API to a call for `display` items from `start`, when
\* it has at most `left` further results and can fail in the ways `failures`
Replies(display, start, left, failures) ==
    {[kind |-> "ok", items |-> [j \in 1..k |-> [id |-> start + j - 1]]] :
        k \in 0..(IF display < left THEN display ELSE left)}
    \cup {[kind |-> c, items |-> <<>>] : c \in failures}

\* start offset of the next search call
NextStart == Len(requests) * PageSize + 1

\* src/main.py: for i in range(m_amount // 100): items.extend(get_naver_news(...))
\* extend(None) raises TypeError, which ends the script run.
main_search(reply) ==
    LET r    == main_get_naver_news(reply)
        last == Len(requests) + 1 = m_amount \div PageSize
        all  == items \o r.ret.list
    IN  /\ Len(requests) < m_amount \div PageSize
        /\ shown' = shown \o r.error \o (IF r.ret = None THEN <<"TypeError">> ELSE <<>>)
        /\ logged' = logged
        /\ IF r.ret = None
           THEN /\ pc' = "aborted"
                /\ UNCHANGED <<items, saved_stops>>
           ELSE /\ items' = all
                /\ pc' = IF ~last THEN "search" ELSE IF all # <<>> THEN "articles" ELSE "done"
                /\ saved_stops' = IF last /\ all # <<>>
                                  THEN load_user_stopwords(stopwords_file) ELSE saved_stops

\* the page is appended whole, without the slice
test_search_uncut(reply) ==
    LET r    == test_get_naver_news(reply)
        all  == items \o r.ret.list
        last == Len(all) >= m_amount \/ NextStart + PageSize > m_amount
    IN  /\ NextStart <= m_amount
        /\ items' = all
        /\ logged' = logged \o r.log
        /\ pc' = IF ~last THEN "search" ELSE IF all # <<>> THEN "articles" ELSE "done"
        /\ shown' = IF last /\ all = <<>> THEN Append(shown, "no_articles") ELSE shown
        /\ UNCHANGED saved_stops

\* src/test.py: for page_start in range(1, max_articles + 1, 100): ...
\* all_items.extend(items[:max_articles - len(all_items)]); break when full
test_search(reply) ==
    LET r    == test_get_naver_news(reply)
        all  == items \o Take(r.ret.list, m_amount - Len(items))
        last == Len(all) >= m_amount \/ NextStart + PageSize > m_amount
    IN  /\ NextStart <= m_amount
        /\ items' = all
        /\ logged' = logged \o r.log
        /\ pc' = IF ~last THEN "search" ELSE IF all # <<>> THEN "articles" ELSE "done"
        /\ shown' = IF last /\ all = <<>> THEN Append(shown, "no_articles") ELSE shown
        /\ UNCHANGED saved_stops

\* what the caller of get_naver_news has in hand after the call: the returned
\* value and the error shown in the session (the log file is not in its reach)
Reported(r) == [none |-> r.ret.none, size |-> Len(r.ret.list), error |-> r.error]

\* time.sleep calls of one get_naver_news call: src/test.py sleeps
\* RATE_LIMIT_DELAY before the request, src/main.py never sleeps
search_sleeps(prog) == IF prog = "test" THEN 1 ELSE 0

\* one search call and what the loop does with its result
SearchCall(reply) ==
    /\ pc = "search"
    /\ requests' = Append(requests,
                          [display |-> PageSize, start |-> NextStart, reply |-> reply.kind,
                           returned |-> Len(reply.items),
                           result |-> Reported(get_naver_news(program, reply))])
    /\ IF program = "main" THEN main_search(reply) ELSE test_search(reply)
    /\ waits' = [waits EXCEPT !.before_search = @ + search_sleeps(program)]
    /\ UNCHANGED <<search_keyword, m_amount, n_amount, idx, total_stats, pbar>>
    /\ UNCHANGED <<view, storeVars, extractVars, envVars, session_state, histVars>>

\* every way a call can fail; src/main.py also treats a success status other
\* than 200 as a failure
Failures(prog) == FailureReplies \cup (IF prog = "main" THEN {"non200"} ELSE {})

\* a search call inside a whole run: the keyword has at most MaxResults
\* results, and a failing call fails with a network error
SearchPage ==
    \E reply \in Replies(PageSize, NextStart, MaxResults - SumReturned(requests), {"neterr"}) :
        SearchCall(reply)

\* the article raises inside the try block
Raises(prog, ev, tokenizer) ==
    \/ ev.kind \in {"fetch_error", "tokenize_error"}
    \/ ev.kind = "ok" /\ prog = "main" /\ ~tokenizer

\* contributed, after an article whose per-article map is `map`
Credit(c, map) ==
    [w \in Vocab |->
        IF \E i \in 1..Len(map) : map[i].word = w
        THEN LET i == CHOOSE i \in 1..Len(map) : map[i].word = w
             IN  <<c[w][1] + 1, c[w][2] + map[i].count>>
        ELSE c[w]]

article_step(prog, stats, ev, tokenizer, vc, n) ==
    IF prog = "main" THEN main_article(stats, ev, tokenizer, vc, n)
    ELSE test_article(stats, ev, tokenizer, vc, n)

\* tokenizer outputs the articles of a run are drawn from
RunVocab == {"ai", "cloud"}

RunStreams == SeqsUpTo(RunVocab, MaxRunTokens)

\* requests.get calls of one article: none for a link that is not an article
\* page of the publisher
Fetches(ev) == IF ev.kind = "foreign" THEN 0 ELSE 1

\* one iteration of the article loop
ProcessArticle ==
    /\ pc = "articles"
    /\ idx < Len(items)
    /\ \E ev \in ArticleEvents(my_tokenizer, RunStreams) :
       \E vc \in ValueCounts(FilterWords(Tokenize(program, ev, my_tokenizer), saved_stops)) :
         LET r  == article_step(program, total_stats, ev, my_tokenizer, vc, n_amount)
             ok == ev.kind = "ok" /\ ~Raises(program, ev, my_tokenizer)
         IN  /\ total_stats' = r.stats
             /\ pbar' = IF r.progress THEN <<idx + 1, Len(items)>> ELSE pbar
             /\ pc' = IF r.goon THEN "articles" ELSE "aborted"
             /\ contributed' = Credit(contributed, IF ok THEN TopN(vc, n_amount) ELSE <<>>)
             /\ failed' = failed + (IF Raises(program, ev, my_tokenizer) THEN 1 ELSE 0)
             /\ waits' = [waits EXCEPT !.fetches = @ + Fetches(ev)]
    /\ idx' = idx + 1
    /\ UNCHANGED <<search_keyword, m_amount, n_amount, requests, items, saved_stops, shown, logged>>
    /\ UNCHANGED <<view, storeVars, extractVars, envVars, session_state>>

\* st.session_state.update({...}) / st.session_state.analysis_results = {...}
Published(stats) ==
    [analysis_step |-> TRUE, total_stats |-> sorted_stats(stats),
     current_keyword |-> search_keyword, current_n |-> n_amount,
     news_items |-> [i \in 1..Len(items) |-> items[i].id]]

\* the table is published whether or not it holds a word
FinishAlways ==
    /\ pc = "articles"
    /\ idx = Len(items)
    /\ pc' = "done"
    /\ session_state' = Published(total_stats)
    /\ shown' = shown
    /\ view' = NoView
    /\ UNCHANGED <<search_keyword, m_amount, n_amount, requests, items, saved_stops, idx,
                   total_stats, pbar, logged, waits>>
    /\ UNCHANGED <<storeVars, extractVars, envVars, histVars>>

\* after the loop: src/main.py publishes a non-empty table and otherwise
\* shows an error; src/test.py publishes whatever it has
Finish ==
    /\ pc = "articles"
    /\ idx = Len(items)
    /\ pc' = "done"
    /\ IF program = "test" \/ total_stats # <<>>
       THEN session_state' = Published(total_stats) /\ shown' = shown /\ view' = NoView
       ELSE session_state' = session_state /\ shown' = Append(shown, "no_results")
            /\ view' = view
    /\ UNCHANGED <<search_keyword, m_amount, n_amount, requests, items, saved_stops, idx,
                   total_stats, pbar, logged, waits>>
    /\ UNCHANGED <<storeVars, extractVars, envVars, histVars>>

Next == Submit \/ SearchPage \/ ProcessArticle \/ Finish

Spec == Init /\ [][Next]_vars

(***************************************************************************)
(* The extraction of one article on its own: the article, the stopword     *)
(* set, the keyword count and the tokenizer are drawn at the start.        *)
(***************************************************************************)
InitExtract ==
    /\ program \in {"main", "test"}
    /\ my_tokenizer \in BOOLEAN
    /\ stopwords_file \in InitialFiles
    /\ saved_stops = load_user_stopwords(stopwords_file)
    /\ n_amount \in 1..MaxKeywords
    /\ article \in ArticleEvents(my_tokenizer, SeqsUpTo(Vocab, MaxTokens))
    /\ article_keywords = <<>>
    /\ sessions = [s \in Sessions |-> Idle]
    /\ before = {}
    /\ last_save = NoSave
    /\ edits = <<>>
    /\ pc = "extract"
    /\ search_keyword = ""
    /\ m_amount = 0
    /\ requests = <<>>
    /\ items = <<>>
    /\ idx = 0
    /\ total_stats = <<>>
    /\ pbar = <<0, 1>>
    /\ waits = NoWaits
    /\ shown = <<>>
    /\ logged = <<>>
    /\ session_state = NoResults
    /\ view = NoView
    /\ contributed = [w \in Vocab |-> <<0, 0>>]
    /\ failed = 0

\* the filtered words of the article
ArticleWords == FilterWords(Tokenize(program, article, my_tokenizer), saved_stops)

\* the per-article map the loop body folds in for `article`
Extract ==
    /\ pc = "extract"
    /\ \E vc \in ValueCounts(ArticleWords) :
         article_keywords' = article_step(program, <<>>, article, my_tokenizer, vc, n_amount).top_n
    /\ pc' = "extracted"
    /\ UNCHANGED <<search_keyword, m_amount, n_amount, requests, items, saved_stops, idx,
                   total_stats, pbar, shown, logged, waits>>
    /\ UNCHANGED <<article, envVars, session_state, view, histVars, storeVars>>

SpecExtract == InitExtract /\ [][Extract]_vars

\* C4: the per-article keyword map has at most maxKeywords entries, no word
\* twice, and every word in it is 2 to 10 characters long and not in the
\* stopword set loaded for the run.
C4_MapWithinLimits ==
    /\ Len(article_keywords) <= n_amount
    /\ \A i \in 1..Len(article_keywords) :
         /\ 2 <= Len(article_keywords[i].word)
         /\ Len(article_keywords[i].word) <= 10
         /\ article_keywords[i].word \notin saved_stops
         /\ \A j \in 1..Len(article_keywords) : i # j => article_keywords[i].word # article_keywords[j].word

\* words the tokenizer or the fallback split gave for the article
GivenTokens == Range(Tokenize(program, article, my_tokenizer))

\* a full map was cut from an article with more distinct words than
\* maxKeywords, and the article also held a token the filter removed
C4_Witness ==
    /\ pc = "extracted"
    /\ Len(article_keywords) = n_amount
    /\ Cardinality(Range(ArticleWords)) > n_amount
    /\ \E t \in GivenTokens : ~KeepWord(t, saved_stops)

\* the map of an article that was fetched and tokenized
Extracted == pc = "extracted" /\ article.kind = "ok" /\ (program = "test" \/ my_tokenizer)

\* C5 as stated: the map holds the maxKeywords most frequent filtered words
\* with their exact counts, in descending order of count, and among words of
\* equal count the one occurring first in the filtered sequence is kept and
\* placed first.
C5_TopByFirstOccurrence ==
    Extracted =>
        LET words == ArticleWords
            kept  == {article_keywords[i].word : i \in 1..Len(article_keywords)}
            n     == IF Cardinality(Range(words)) < n_amount
                     THEN Cardinality(Range(words)) ELSE n_amount
        IN  /\ Len(article_keywords) = n
            /\ \A i \in 1..Len(article_keywords) :
                 article_keywords[i].count = Occurrences(words, article_keywords[i].word)
            /\ \A i \in 1..Len(article_keywords) : \A j \in (i+1)..Len(article_keywords) :
                 \/ article_keywords[i].count > article_keywords[j].count
                 \/ /\ article_keywords[i].count = article_keywords[j].count
                    /\ FirstIndex(words, article_keywords[i].word)
                         < FirstIndex(words, article_keywords[j].word)
            /\ \A w \in Range(words) \ kept : \A i \in 1..Len(article_keywords) :
                 \/ article_keywords[i].count > Occurrences(words, w)
                 \/ /\ article_keywords[i].count = Occurrences(words, w)
                    /\ FirstIndex(words, article_keywords[i].word) < FirstIndex(words, w)

(***************************************************************************)
(* Stopword edits of concurrent sessions.  Every edit is made by a script  *)
(* run that loads the set and later saves the edited set.                  *)
(***************************************************************************)
\* words offered for an edit
StopWords == {"ai", "cloud"}

\* the add overwrites the stored set with the selection
EditedReplace(op, existing, words) ==
    IF op = "add" THEN words ELSE existing \ words

\* saved_stops.union(set(to_add)) / saved_stops - set(to_del)
Edited(op, existing, words) ==
    IF op = "add" THEN existing \cup words ELSE existing \ words

\* a click starts a script run of session s: it loads the stopwords and has
\* the words picked in the widget; words to delete come from the loaded set
Click(s) ==
    /\ pc = "form"
    /\ sessions[s].at = "idle"
    /\ LET loaded == load_user_stopwords(stopwords_file)
       IN  \E op \in {"add", "remove"} :
           \E W \in (SUBSET (IF op = "add" THEN StopWords ELSE loaded)) \ {{}} :
               sessions' = [sessions EXCEPT ![s] =
                   [at |-> "loaded", saved_stops |-> loaded, op |-> op, words |-> W, fresh |-> TRUE,
                    before |-> {}]]
    /\ UNCHANGED <<stopwords_file, before, last_save, edits>>
    /\ UNCHANGED <<program, my_tokenizer, runVars, session_state, view, histVars, extractVars>>

\* the script run of session s enters save_user_stopwords and opens the file
OpenFile(s) ==
    /\ sessions[s].at = "loaded"
    /\ stopwords_file' = open_w(stopwords_file)
    /\ sessions' = [sessions EXCEPT ![s].at = "writing",
                                    ![s].before = load_user_stopwords(stopwords_file)]
    /\ UNCHANGED <<before, last_save, edits>>
    /\ UNCHANGED <<program, my_tokenizer, runVars, session_state, view, histVars, extractVars>>

\* the script run of session s writes the edited set and closes the file
WriteFile(s) ==
    /\ sessions[s].at = "writing"
    /\ stopwords_file' =
         write_close(stopwords_file,
             encode(json_dump(SortedList(Edited(sessions[s].op, sessions[s].saved_stops,
                                                sessions[s].words))), "utf-8"))
    /\ before' = sessions[s].before
    /\ last_save' = [session |-> s, saved_stops |-> sessions[s].saved_stops, op |-> sessions[s].op,
                     words |-> sessions[s].words, fresh |-> sessions[s].fresh]
    /\ sessions' = [t \in Sessions |->
                      IF t = s THEN Idle ELSE [sessions[t] EXCEPT !.fresh = FALSE]]
    /\ UNCHANGED edits
    /\ UNCHANGED <<program, my_tokenizer, runVars, session_state, view, histVars, extractVars>>

NextStore == \E s \in Sessions : Click(s) \/ OpenFile(s) \/ WriteFile(s)

SpecStore == Init /\ [][NextStore]_vars

\* no session is inside save_user_stopwords
NoSaveRunning == \A s \in Sessions : sessions[s].at # "writing"

\* C10: concurrent saves are last-writer-wins.  After the saves the
\* persisted set is exactly the set the later save wrote, the edit applied to
\* the set its session had loaded: what other sessions saved after that load
\* is undone.  A save with no other save since its load applies its edit to
\* the persisted set: every added word is in, every removed word is out, and
\* nothing else changes.
C10_LastWriterWins ==
    (last_save.session # 0 /\ NoSaveRunning) =>
        LET now == load_user_stopwords(stopwords_file)
        IN  /\ now = Edited(last_save.op, last_save.saved_stops, last_save.words)
            /\ \A w \in (before \ last_save.saved_stops) \ last_save.words : w \notin now
            /\ \A w \in (last_save.saved_stops \ before) \ last_save.words : w \in now
            /\ last_save.fresh =>
                 /\ last_save.saved_stops = before
                 /\ last_save.op = "add" => now = before \cup last_save.words
                 /\ last_save.op = "remove" => now = before \ last_save.words

(***************************************************************************)
(* Stopword edits of a lone writer: each edit is one script run, which     *)
(* loads the set, changes it and saves it.                                 *)
(***************************************************************************)
\* words the result section offers, one of them written in Hangul
EditWords == {"ai", "cloud", "gisa"}

\* selections the widgets allow: words to add come from the analysed words;
\* words to delete come from the loaded set, and src/main.py saves only a
\* non-empty selection
EditChoices(prog, op, loaded) ==
    IF op = "add" THEN (SUBSET EditWords) \ {{}}
    ELSE IF prog = "main" THEN (SUBSET loaded) \ {{}}
    ELSE SUBSET loaded

\* one script run of a button: load_user_stopwords, then
\* save_user_stopwords of the union or the difference
EditStopwords ==
    /\ pc = "form"
    /\ Len(edits) < MaxEdits
    /\ LET loaded == load_user_stopwords(stopwords_file)
       IN  \E op \in {"add", "remove"} : \E W \in EditChoices(program, op, loaded) :
             LET saved == Edited(op, loaded, W)
             IN  /\ stopwords_file' = save_user_stopwords(saved)
                 /\ edits' = Append(edits,
                        [op |-> op, words |-> W, loaded |-> loaded, saved |-> saved,
                         persisted |-> load_user_stopwords(save_user_stopwords(saved))])
    /\ UNCHANGED <<sessions, before, last_save>>
    /\ UNCHANGED <<program, my_tokenizer, runVars, session_state, view, histVars, extractVars>>

SpecEdit == Init /\ [][EditStopwords]_vars

\* C11: a load after save(S), with no save in between, returns S: the set
\* read back right after the save, the set the next edit loads and the set
\* a load of the present file returns are the set that was saved.
C11_LoadAfterSave ==
    /\ \A i \in 1..Len(edits) : edits[i].persisted = edits[i].saved
    /\ \A i \in 1..(Len(edits) - 1) : edits[i + 1].loaded = edits[i].saved
    /\ edits # <<>> => load_user_stopwords(stopwords_file) = edits[Len(edits)].saved

\* the empty set was saved and loaded back, and then a set holding a word
\* written in Hangul was saved and is what the file gives back
C11_Witness ==
    /\ Len(edits) = 2
    /\ edits[1].saved = {}
    /\ edits[2].loaded = {}
    /\ edits[2].saved \cap NonLatin # {}
    /\ load_user_stopwords(stopwords_file) \cap NonLatin # {}

\* C12: stopword edits are set algebra.  Adding words that are all stored, or
\* removing words none of which is stored, leaves the persisted set as it
\* was loaded; removing W right after adding W, for W disjoint from the
\* stored set, persists the set from before the add.  The same holds of the
\* union and the difference for all sets.
C12_SetAlgebra ==
    /\ \A i \in 1..Len(edits) :
         /\ (edits[i].op = "add" /\ edits[i].words \subseteq edits[i].loaded)
                => edits[i].persisted = edits[i].loaded
         /\ (edits[i].op = "remove" /\ edits[i].words \cap edits[i].loaded = {})
                => edits[i].persisted = edits[i].loaded
    /\ \A i \in 1..(Len(edits) - 1) :
         (/\ edits[i].op = "add"
          /\ edits[i + 1].op = "remove"
          /\ edits[i + 1].words = edits[i].words
          /\ edits[i].words \cap edits[i].loaded = {})
             => edits[i + 1].persisted = edits[i].loaded
    /\ \A S \in SUBSET EditWords : \A W \in SUBSET EditWords :
         /\ W \cap S = {} => Edited("remove", Edited("add", S, W), W) = S
         /\ W \cap S = {} => Edited("remove", S, W) = S
         /\ W \subseteq S => Edited("add", S, W) = S

\* words not stored were added to a non-empty set and removed again, and the
\* file holds the set from before the add
C12_Witness ==
    /\ Len(edits) = 2
    /\ edits[1].op = "add"
    /\ edits[2].op = "remove"
    /\ edits[2].words = edits[1].words
    /\ edits[1].words \cap edits[1].loaded = {}
    /\ edits[1].loaded # {}
    /\ load_user_stopwords(stopwords_file) = edits[1].loaded

(***************************************************************************)
(* The result section.  The session has the results of an earlier run, is  *)
(* followed through one more analysis run, and then uses the result        *)
(* section; the local variables of a script run are gone when it ends.     *)
(***************************************************************************)
\* results of an earlier run: one article, one word
Earlier ==
    [analysis_step |-> TRUE, total_stats |-> <<[word |-> "cloud", stat |-> <<1, 1>>]>>,
     current_keyword |-> "kw", current_n |-> 1, news_items |-> <<1>>]

InitResults ==
    /\ program \in {"main", "test"}
    /\ my_tokenizer = TRUE
    /\ stopwords_file = NoFile
    /\ pc = "form"
    /\ search_keyword = ""
    /\ m_amount = 0
    /\ n_amount = 0
    /\ requests = <<>>
    /\ items = <<>>
    /\ saved_stops = {}
    /\ idx = 0
    /\ total_stats = <<>>
    /\ pbar = <<0, 1>>
    /\ waits = NoWaits
    /\ shown = <<>>
    /\ logged = <<>>
    /\ session_state = Earlier
    /\ view = NoView
    /\ contributed = [w \in Vocab |-> <<0, 0>>]
    /\ failed = 0
    /\ article = NoArticle
    /\ article_keywords = <<>>
    /\ sessions = [s \in Sessions |-> Idle]
    /\ before = {}
    /\ last_save = NoSave
    /\ edits = <<>>

\* the script run of the form ends, by its last line, st.rerun(), return or
\* an uncaught exception: its local variables and its messages are gone
EndRun ==
    /\ pc \in {"done", "aborted"}
    /\ pc' = "results"
    /\ search_keyword' = ""
    /\ m_amount' = 0
    /\ n_amount' = 0
    /\ requests' = <<>>
    /\ items' = <<>>
    /\ saved_stops' = {}
    /\ idx' = 0
    /\ total_stats' = <<>>
    /\ pbar' = <<0, 1>>
    /\ waits' = NoWaits
    /\ shown' = <<>>
    /\ logged' = <<>>
    /\ contributed' = [w \in Vocab |-> <<0, 0>>]
    /\ failed' = 0
    /\ UNCHANGED <<session_state, view, envVars, extractVars, storeVars>>

\* the result section is rendered
ResultsShown == pc = "results" /\ session_state.analysis_step /\ view.clicks < MaxClicks

\* list(full_dict.keys())[:display_limit] / list(stats.keys())[:top_n]
top_words ==
    LET shown_rows == Take(session_state.total_stats, session_state.current_n)
    IN  [i \in 1..Len(shown_rows) |-> shown_rows[i].word]

\* default of "단어 선택:": the shown words, without the stored stopwords
\* when the toggle is on
default_sel(use_auto, stops) ==
    IF use_auto THEN {w \in Range(top_words) : w \notin stops} ELSE Range(top_words)

\* words selected in the multiselect: `selected` of src/main.py (kept words),
\* `exclude_words` of src/test.py (left-out words, none by default)
Selection(use_auto) ==
    IF view.custom THEN view.selected
    ELSE IF program = "main"
    THEN default_sel(use_auto, load_user_stopwords(stopwords_file))
    ELSE {}

\* rows of the published table whose word is in `keep`, each with its
\* article count
Counts(keep) ==
    LET t == session_state.total_stats
        F[i \in 0..Len(t)] ==
            IF i = 0 THEN <<>>
            ELSE IF t[i].word \in keep
            THEN Append(F[i - 1], [word |-> t[i].word, count |-> t[i].stat[1]])
            ELSE F[i - 1]
    IN  F[Len(t)]

\* the user changes the multiselect
SelectWords ==
    /\ ResultsShown
    /\ \E S \in SUBSET Range(top_words) :
         view' = [view EXCEPT !.custom = TRUE, !.selected = S, !.clicks = @ + 1]
    /\ UNCHANGED <<session_state, runVars, histVars, envVars, extractVars, storeVars>>

\* src/main.py "단어 추가"
AddStopwords ==
    /\ ResultsShown
    /\ program = "main"
    /\ \E to_add \in (SUBSET Range(top_words)) \ {{}} :
         stopwords_file' =
             save_user_stopwords(Edited("add", load_user_stopwords(stopwords_file), to_add))
    /\ view' = [view EXCEPT !.clicks = @ + 1]
    /\ UNCHANGED <<program, my_tokenizer, session_state, runVars, histVars,
                   extractVars, storeVars>>

\* src/main.py "차단 해제", in the result section; src/test.py "🗑️ 삭제"
RemoveStopwords ==
    /\ pc = "results"
    /\ view.clicks < MaxClicks
    /\ program = "main" => session_state.analysis_step
    /\ \E W \in EditChoices(program, "remove", load_user_stopwords(stopwords_file)) :
         stopwords_file' =
             save_user_stopwords(Edited("remove", load_user_stopwords(stopwords_file), W))
    /\ view' = [view EXCEPT !.clicks = @ + 1]
    /\ UNCHANGED <<program, my_tokenizer, session_state, runVars, histVars,
                   extractVars, storeVars>>

\* words the stopword file gains by the word cloud button, and the table
\* the cloud is drawn from: src/main.py stores the words taken out of the
\* selection when the toggle is on and draws the selected words; src/test.py
\* stores the left-out words and draws all others
cloud_save(use_auto) ==
    IF program = "main"
    THEN IF use_auto THEN Range(top_words) \ Selection(use_auto) ELSE {}
    ELSE Selection(use_auto)

cloud_counts(use_auto) ==
    IF program = "main" THEN Counts(Selection(use_auto))
    ELSE Counts(Words(session_state.total_stats) \ Selection(use_auto))

\* the rows left out of the cloud are deleted from the published table
WordCloudDrops ==
    /\ ResultsShown
    /\ \E use_auto \in BOOLEAN :
         /\ program = "test" => cloud_counts(use_auto) # <<>>
         /\ stopwords_file' =
              IF cloud_save(use_auto) # {}
              THEN save_user_stopwords(
                       Edited("add", load_user_stopwords(stopwords_file), cloud_save(use_auto)))
              ELSE stopwords_file
         /\ view' = [view EXCEPT !.display_dict = cloud_counts(use_auto), !.clicks = @ + 1]
         /\ session_state' =
              [session_state EXCEPT !.total_stats =
                  SelectSeq(@, LAMBDA row :
                      \E i \in 1..Len(cloud_counts(use_auto)) :
                          cloud_counts(use_auto)[i].word = row.word)]
    /\ UNCHANGED <<program, my_tokenizer, runVars, histVars, extractVars, storeVars>>

\* "✨ 워드클라우드 생성" / "🎨 생성".  In src/test.py the cloud of an empty
\* table raises before anything is stored.
WordCloud ==
    /\ ResultsShown
    /\ \E use_auto \in BOOLEAN :
         /\ program = "test" => cloud_counts(use_auto) # <<>>
         /\ stopwords_file' =
              IF cloud_save(use_auto) # {}
              THEN save_user_stopwords(
                       Edited("add", load_user_stopwords(stopwords_file), cloud_save(use_auto)))
              ELSE stopwords_file
         /\ view' = [view EXCEPT !.display_dict = cloud_counts(use_auto), !.clicks = @ + 1]
    /\ UNCHANGED <<program, my_tokenizer, session_state, runVars, histVars, extractVars,
                   storeVars>>

\* src/test.py "📥 CSV": the shown rows with both counts
Export ==
    /\ ResultsShown
    /\ program = "test"
    /\ view' = [view EXCEPT !.clicks = @ + 1, !.csv =
                   LET rows == Take(session_state.total_stats, session_state.current_n)
                   IN  [i \in 1..Len(rows) |->
                           <<rows[i].word, rows[i].stat[1], rows[i].stat[2]>>]]
    /\ UNCHANGED <<session_state, runVars, histVars, envVars, extractVars, storeVars>>

\* "로그아웃": st.session_state.clear() and the login page
Logout ==
    /\ pc \in {"form", "results"}
    /\ pc' = "login"
    /\ session_state' = NoResults
    /\ view' = NoView
    /\ UNCHANGED <<search_keyword, m_amount, n_amount, requests, items, saved_stops, idx,
                   total_stats, pbar, shown, logged, waits>>
    /\ UNCHANGED <<histVars, envVars, extractVars, storeVars>>

NextResults ==
    \/ Submit \/ SearchPage \/ ProcessArticle \/ Finish \/ EndRun
    \/ SelectWords \/ AddStopwords \/ RemoveStopwords \/ WordCloud \/ Export \/ Logout

SpecResults == InitResults /\ [][NextResults]_vars

\* C16: the published table is read-only.  No step of the result section
\* (selecting words, adding or removing stopwords, the word cloud, the
\* export) changes a pair or the order of the table, and a step after which
\* a different table is published is the end of an analysis run.
C16_PublishedReadOnly ==
    [][/\ (pc = "results" /\ pc' = "results") => session_state' = session_state
       /\ (session_state'.analysis_step /\ session_state' # session_state)
              => (pc = "articles" /\ pc' = "done")]_vars

\* in src/main.py a later run has replaced the table, and on the new table
\* words were selected, a stopword was stored and the word cloud was drawn
C16_Witness ==
    /\ program = "main"
    /\ pc = "results"
    /\ session_state.analysis_step
    /\ session_state # Earlier
    /\ view.custom
    /\ view.display_dict # <<>>
    /\ load_user_stopwords(stopwords_file) # {}

\* C17 as stated: in src/main.py the published state changes only in the step
\* that ends a run with a non-empty table, which sets all five entries from
\* that run.
C17_ChangesOnlyOnFinish ==
    [][(program = "main" /\ session_state' # session_state)
          => /\ pc = "articles" /\ pc' = "done"
             /\ total_stats # <<>>
             /\ session_state' = Published(total_stats)]_vars

\* C17: in src/main.py the published state changes only in the step that
\* ends a run with a non-empty table, which sets all five entries from that
\* run, and at logout, which clears the session; a run that aborts in the
\* search or ends with an empty table leaves it as it was.
C17_ChangesOnFinishOrLogout ==
    [][(program = "main" /\ session_state' # session_state)
          => \/ /\ pc = "articles" /\ pc' = "done"
                /\ total_stats # <<>>
                /\ session_state' = Published(total_stats)
             \/ /\ pc' = "login"
                /\ session_state' = NoResults]_vars

\* a run of src/main.py went through its articles, ended with an empty
\* table, and the results of the earlier run are still published
C17_Witness ==
    /\ program = "main"
    /\ pc = "done"
    /\ Len(items) >= 1
    /\ idx = Len(items)
    /\ total_stats = <<>>
    /\ session_state = Earlier

(***************************************************************************)
(* Properties of the aggregate table and its ranking.                      *)
(***************************************************************************)
\* every entry of a table has 1 <= articles <= frequency
CountsInRange(stats) ==
    \A i \in 1..Len(stats) : stats[i].stat[1] >= 1 /\ stats[i].stat[1] <= stats[i].stat[2]

\* C1: after any sequence of per-article fold-ins, every token of the
\* aggregate table and of the published ranked table has an article count of
\* at least 1 and at most its total frequency.
C1_CountsBounded ==
    /\ CountsInRange(total_stats)
    /\ CountsInRange(session_state.total_stats)

\* a run has published a table in which some word occurs in two articles and
\* more often than once in one of them
C1_Witness ==
    /\ pc = "done"
    /\ session_state.analysis_step
    /\ \E i \in 1..Len(session_state.total_stats) :
         /\ session_state.total_stats[i].stat[1] >= 2
         /\ session_state.total_stats[i].stat[2] > session_state.total_stats[i].stat[1]

\* C2: the ranked output is non-increasing under (article count, total
\* frequency), holds exactly the entries of the aggregate table, and of two
\* entries with equal pairs the one inserted into the table first comes first.
C2_RankedOrder ==
    (pc = "done" /\ session_state.analysis_step) =>
        LET ranked == session_state.total_stats
        IN  /\ Len(ranked) = Len(total_stats)
            /\ Range(ranked) = Range(total_stats)
            /\ \A i \in 1..Len(ranked) : \A j \in (i+1)..Len(ranked) :
                 /\ ~KeyLess(ranked[i].stat, ranked[j].stat)
                 /\ ranked[i].stat = ranked[j].stat =>
                      IndexOf(total_stats, ranked[i].word) < IndexOf(total_stats, ranked[j].word)

\* a published ranking with two entries of equal pairs, and one in which the
\* ranking moved a later word to the front
C2_Witness ==
    /\ pc = "done"
    /\ session_state.analysis_step
    /\ Len(session_state.total_stats) >= 2
    /\ session_state.total_stats[1].stat = session_state.total_stats[2].stat
    /\ session_state.total_stats[1].stat[1] >= 2

\* C3: for every token the article count is the number of articles whose
\* per-article map holds it and the total frequency is the sum of its counts
\* in those maps; a token in no map is not in the table.
C3_DualCount ==
    \A w \in Vocab :
        IF contributed[w][1] = 0
        THEN w \notin Words(total_stats)
        ELSE w \in Words(total_stats) /\ Stat(total_stats, w) = contributed[w]

\* all articles are processed, one word was in two maps with a frequency
\* above one in one of them, and another word was in one map only
C3_Witness ==
    /\ pc = "done"
    /\ idx = Len(items)
    /\ \E w \in Vocab : contributed[w][1] = 2 /\ contributed[w][2] >= 3
    /\ \E w \in Vocab : contributed[w][1] = 1

\* C6: articles that fail during fetch, parse or tokenize do not stop the
\* loop: a run never aborts once the article loop has begun, a finished run
\* has gone through every collected article, and its table is the fold of
\* the successful articles only.
C6_PartialFailure ==
    /\ pc = "aborted" => idx = 0 /\ failed = 0
    /\ pc = "done" =>
         /\ idx = Len(items)
         /\ failed <= Len(items)
         /\ \A w \in Vocab :
              /\ w \in Words(total_stats) <=> contributed[w][1] > 0
              /\ w \in Words(total_stats) => Stat(total_stats, w) = contributed[w]
              /\ contributed[w][1] <= Len(items) - failed

\* a finished run of two articles, the first of which failed, with a table
\* made from the other
C6_Witness ==
    /\ pc = "done"
    /\ Len(items) = 2
    /\ failed = 1
    /\ total_stats # <<>>
    /\ session_state.analysis_step

\* C13 as stated: with no tokenizer the run does not abort in the article
\* loop, every article is gone through, and no article adds a token to the
\* aggregate table.
C13_NoTokenizerZeroTokens ==
    ~my_tokenizer =>
        /\ pc = "aborted" => idx = 0
        /\ pc = "done" => idx = Len(items)
        /\ total_stats = <<>>
        /\ \A w \in Vocab : contributed[w] = <<0, 0>>

\* C13: with no tokenizer the run does not abort in the article loop, the
\* loop can always take its next step until every article is gone through,
\* and the run ends after the last article.  In src/main.py no article adds a
\* token to the aggregate table; in src/test.py an article adds the words of
\* 2 to 10 characters that the regular expression finds in its text and that
\* are not stopwords.
C13_NoTokenizerNoAbort ==
    ~my_tokenizer =>
        /\ pc = "aborted" => idx = 0
        /\ pc = "articles" => idx <= Len(items) /\ ENABLED (ProcessArticle \/ Finish)
        /\ pc = "done" => idx = Len(items)
        /\ program = "main" =>
             total_stats = <<>> /\ \A w \in Vocab : contributed[w] = <<0, 0>>
        /\ program = "test" =>
             /\ Words(total_stats) \subseteq ValidWords \ saved_stops
             /\ \A w \in Words(total_stats) : Stat(total_stats, w) = contributed[w]

\* without a tokenizer src/test.py went through two articles to the end of
\* the run and the table holds words of theirs
C13_Witness ==
    /\ ~my_tokenizer
    /\ program = "test"
    /\ pc = "done"
    /\ Len(items) = 2
    /\ idx = 2
    /\ total_stats # <<>>

\* C14: after every article, eligible or not, failing or not, the fraction
\* reported last is (articles gone through) / (articles collected); at the
\* end of the run it is 1.
C14_ProgressEachArticle ==
    (pc \in {"articles", "done"} /\ idx >= 1) => pbar = <<idx, Len(items)>>

\* C15: a delay step comes between every two consecutive article fetches,
\* and no delay step comes before or between the search calls.
C15_DelayBetweenFetches ==
    /\ waits.before_search = 0
    /\ waits.fetches >= 2 => waits.before_fetch >= waits.fetches - 1

(***************************************************************************)
(* The search phase on its own: every reply the API can give, no limit on  *)
(* the results it holds.                                                   *)
(***************************************************************************)
SearchAny ==
    \E reply \in Replies(PageSize, NextStart, PageSize, Failures(program)) :
        SearchCall(reply)

NextSearch == Submit \/ SearchAny

SpecSearch == Init /\ [][NextSearch]_vars

\* the search call number i failed
FailedCall(i) == requests[i].reply # "ok"

\* C7: if a search call fails, the run stops at once: no later search page is
\* requested, no article is processed, and nothing is published.
C7_SearchFailureStops ==
    \A i \in 1..Len(requests) :
        FailedCall(i) =>
            /\ Len(requests) = i
            /\ idx = 0
            /\ session_state = NoResults
    /\ view = NoView

\* the three causes of a failed search call
Cause(kind) ==
    CASE kind = "http401" -> "invalid_credential"
      [] kind = "http403" -> "quota_or_permission"
      [] OTHER            -> "generic"

\* C8: a failed search call is reported to its caller with an error kind that
\* tells invalid credential, quota/permission and generic failure apart: what
\* the caller has in hand after a failure differs from what it would have
\* after a failure of another cause.
C8_DistinctErrorKinds ==
    \A i \in 1..Len(requests) :
        FailedCall(i) =>
            \A k \in Failures(program) :
                Cause(k) # Cause(requests[i].reply) =>
                    requests[i].result # Reported(get_naver_news(program, [kind |-> k, items |-> <<>>]))

\* pages needed for the amount asked for
PagesNeeded == (m_amount + PageSize - 1) \div PageSize

\* the calls ask for at most a page, from offsets 1, 1 + size, 1 + 2*size, ...
\* and the collected items never exceed the amount asked for
PagedInOrder ==
    /\ \A i \in 1..Len(requests) :
         /\ requests[i].display <= PageSize
         /\ requests[i].start = 1 + (i - 1) * requests[i].display
    /\ Len(items) <= m_amount

\* C9 as stated: paged in order, and no page is requested once the amount is
\* collected or once a page has come back empty.
C9_StopsWhenExhausted ==
    /\ PagedInOrder
    /\ pc = "search" => Len(items) < m_amount
    /\ \A i \in 1..Len(requests) :
         (requests[i].reply = "ok" /\ requests[i].returned = 0) => Len(requests) = i

\* C9 amended: paged in order; a further page is requested only while fewer
\* items than asked for are collected and fewer pages than needed are
\* requested; a search that ends without aborting has collected the amount
\* or requested every page.  An empty or short page does not end it.
C9_Paging ==
    /\ PagedInOrder
    /\ Len(requests) <= PagesNeeded
    /\ pc = "search" => Len(items) < m_amount /\ Len(requests) < PagesNeeded
    /\ pc \in {"articles", "done"} => Len(items) = m_amount \/ Len(requests) = PagesNeeded

\* the amount was reached on the second page, which returned more than was
\* still missing
C9_Witness ==
    /\ pc = "articles"
    /\ Len(requests) = 2
    /\ requests[2].start = 1 + PageSize
    /\ Len(items) = m_amount
    /\ SumReturned(requests) > m_amount

====
